---- MODULE Spec2Model ----
(***************************************************************************)
(* Model of openid/idtokenvalidator.go: the ID token validator of          *)
(* openid2go.  One validate call parses the token with a key callback      *)
(* (getSigningKey) that matches issuer, audience and subject and resolves  *)
(* the signing key; on a signature mismatch it parses once more with the   *)
(* renewing callback (renewAndGetSigningKey).                              *)
(***************************************************************************)
EXTENDS Naturals, Sequences, FiniteSets

(***************************************************************************)
(* Bounds of the model.                                                    *)
(***************************************************************************)
MaxProviders == 2
MaxClientIDs == 2
MaxAudiences == 2

(***************************************************************************)
(* Claim values.  A claim of jwt.MapClaims is an interface{}: nil when the *)
(* claim is missing, a string, a []interface{} or some other JSON value    *)
(* (a number stands for every other type).                                 *)
(***************************************************************************)
Nil == [kind |-> "nil", s |-> "", l |-> <<>>]
Number == [kind |-> "number", s |-> "", l |-> <<>>]
Str(s) == [kind |-> "string", s |-> s, l |-> <<>>]
List(l) == [kind |-> "list", s |-> "", l |-> l]

issuerClaimName == "iss"
audiencesClaimName == "aud"
subjectClaimName == "sub"
keyIDJwtHeaderName == "kid"

GoogleIssuer == "accounts.google.com"
HttpsPrefix == "https://"
HttpsGoogleIssuer == "https://accounts.google.com"
ExampleIssuer == "https://idp.example"
BareExampleIssuer == "idp.example"

(***************************************************************************)
(* Results of the matchers: err is the ValidationError code, "" for nil.   *)
(***************************************************************************)
NoProvider == [Issuer |-> "", ClientIDs |-> <<>>]
IssuerOk(p) == [err |-> "", p |-> p]
IssuerErr(code) == [err |-> code, p |-> NoProvider]
StrOk(v) == [err |-> "", val |-> v]
StrErr(code) == [err |-> code, val |-> ""]

getIssuer(t) == t.Claims[issuerClaimName]

getSubject(t) == t.Claims[subjectClaimName]

\* kid, _ := jt.Header["kid"].(string): the zero value "" when not a string.
getTokenKid(jt) ==
    LET h == jt.Header[keyIDJwtHeaderName]
    IN  IF h.kind = "string" THEN h.s ELSE ""

\* Variant: only a list is taken for an audience claim.
getAudiencesListOnly(t) ==
    LET audiencesClaim == t.Claims[audiencesClaimName]
    IN  IF audiencesClaim.kind = "list"
        THEN [err |-> "", auds |-> audiencesClaim.l]
        ELSE [err |-> "InvalidAudienceType", auds |-> <<>>]

\* A scalar string becomes a one-element slice, a slice is returned as it is.
getAudiences(t) ==
    LET audiencesClaim == t.Claims[audiencesClaimName]
    IN  IF audiencesClaim.kind = "string"
        THEN [err |-> "", auds |-> <<Str(audiencesClaim.s)>>]
        ELSE IF audiencesClaim.kind = "list"
        THEN [err |-> "", auds |-> audiencesClaim.l]
        ELSE [err |-> "InvalidAudienceType", auds |-> <<>>]

\* Variant: every issuer claim without a scheme is prefixed.
PrefixWhenBare(ti) ==
    IF ti \in {GoogleIssuer, BareExampleIssuer} THEN HttpsPrefix \o ti ELSE ti

\* gi: the workaround for tokens issued by google.
GoogleWorkaround(ti) == IF ti = GoogleIssuer THEN HttpsPrefix \o ti ELSE ti

\* Variant: the last matching provider of the list is returned.
IssuerLoopLastMatch(ps, ti, gi, i) ==
    LET m == {k \in i..Len(ps) : ti = ps[k].Issuer \/ gi = ps[k].Issuer}
    IN  IF m = {} THEN IssuerErr("IssuerNotFound")
        ELSE IssuerOk(ps[CHOOSE k \in m : \A n \in m : n <= k])

\* for _, p := range ps: the first provider, from index i on, whose Issuer
\* equals ti or gi; IssuerNotFound when the loop runs out.
RECURSIVE IssuerLoop(_, _, _, _)
IssuerLoop(ps, ti, gi, i) ==
    IF i > Len(ps) THEN IssuerErr("IssuerNotFound")
    ELSE IF ti = ps[i].Issuer \/ gi = ps[i].Issuer THEN IssuerOk(ps[i])
    ELSE IssuerLoop(ps, ti, gi, i + 1)

validateIssuer(jt, ps) ==
    LET issuerClaim == getIssuer(jt)
    IN  IF issuerClaim.kind # "string" THEN IssuerErr("InvalidIssuerType")
        ELSE IF issuerClaim.s = "" THEN IssuerErr("InvalidIssuer")
        ELSE IssuerLoop(ps, issuerClaim.s, GoogleWorkaround(issuerClaim.s), 1)

\* Variant: the empty subject is not rejected.
validateSubjectNoEmptyCheck(jt) ==
    LET subjectClaim == getSubject(jt)
    IN  IF subjectClaim.kind # "string" THEN StrErr("InvalidSubjectType")
        ELSE StrOk(subjectClaim.s)

validateSubject(jt) ==
    LET subjectClaim == getSubject(jt)
    IN  IF subjectClaim.kind # "string" THEN StrErr("InvalidSubjectType")
        ELSE IF subjectClaim.s = "" THEN StrErr("InvalidSubject")
        ELSE StrOk(subjectClaim.s)

\* Variant: the first non-empty audience entry is returned without comparing
\* it with the client id.
RECURSIVE AudienceLoopAnyAudience(_, _, _, _)
AudienceLoopAnyAudience(cids, auds, i, j) ==
    IF i > Len(cids) THEN StrErr("AudienceNotFound")
    ELSE IF j > Len(auds) THEN AudienceLoopAnyAudience(cids, auds, i + 1, 1)
    ELSE IF auds[j].kind # "string" THEN StrErr("InvalidAudienceType")
    ELSE IF auds[j].s = "" THEN StrErr("InvalidAudience")
    ELSE StrOk(auds[j].s)

\* Variant: the loops are swapped, audience entries outside, client ids inside.
RECURSIVE AudienceLoopAudienceFirst(_, _, _, _)
AudienceLoopAudienceFirst(cids, auds, i, j) ==
    IF j > Len(auds) THEN StrErr("AudienceNotFound")
    ELSE IF auds[j].kind # "string" THEN StrErr("InvalidAudienceType")
    ELSE IF auds[j].s = "" THEN StrErr("InvalidAudience")
    ELSE IF i > Len(cids) THEN AudienceLoopAudienceFirst(cids, auds, 1, j + 1)
    ELSE IF auds[j].s = cids[i] THEN StrOk(auds[j].s)
    ELSE AudienceLoopAudienceFirst(cids, auds, i + 1, j)

\* Variant: an empty audience entry is compared like any other.
RECURSIVE AudienceLoopNoEmptyCheck(_, _, _, _)
AudienceLoopNoEmptyCheck(cids, auds, i, j) ==
    IF i > Len(cids) THEN StrErr("AudienceNotFound")
    ELSE IF j > Len(auds) THEN AudienceLoopNoEmptyCheck(cids, auds, i + 1, 1)
    ELSE IF auds[j].kind # "string" THEN StrErr("InvalidAudienceType")
    ELSE IF auds[j].s = cids[i] THEN StrOk(auds[j].s)
    ELSE AudienceLoopNoEmptyCheck(cids, auds, i, j + 1)

\* The nested loops of validateAudiences: client id i (outer), audience
\* entry j (inner), with the three early returns of the inner body.
RECURSIVE AudienceLoop(_, _, _, _)
AudienceLoop(cids, auds, i, j) ==
    IF i > Len(cids) THEN StrErr("AudienceNotFound")
    ELSE IF j > Len(auds) THEN AudienceLoop(cids, auds, i + 1, 1)
    ELSE IF auds[j].kind # "string" THEN StrErr("InvalidAudienceType")
    ELSE IF auds[j].s = "" THEN StrErr("InvalidAudience")
    ELSE IF auds[j].s = cids[i] THEN StrOk(auds[j].s)
    ELSE AudienceLoop(cids, auds, i, j + 1)

validateAudiences(jt, p) ==
    LET got == getAudiences(jt)
    IN  IF got.err # "" THEN StrErr(got.err)
        ELSE AudienceLoop(p.ClientIDs, got.auds, 1, 1)


(***************************************************************************)
(* The collaborators of the validator.  Their code is not part of          *)
(* idtokenvalidator.go; they are modelled at their interface.              *)
(***************************************************************************)

\* Raw key material as the key resolver hands it out, and the verification
\* keys the decoder makes of it.
NoKey == ""
Unavailable == "unavailable"
KeyBytes == {"pem-A", "pem-B", "not-pem"}
NoRsaKey == "no-rsa-key"
RsaKeys == {"rsa-A", "rsa-B"}

\* rsaParser (pemToRSAPublicKeyParserFunc): PEM bytes to an RSA public key.
rsaParser(key) ==
    IF key = "pem-A" THEN [key |-> "rsa-A", err |-> ""]
    ELSE IF key = "pem-B" THEN [key |-> "rsa-B", err |-> ""]
    ELSE [key |-> NoRsaKey, err |-> "KeyDecodeError"]

\* keyGetter.getSigningKey(r, iss, kid): the cached key of the issuer, or,
\* when none is cached, the key fetched from the issuer's key source, which
\* is then cached.  ca is the cache, so the key source.
keyGetterGetSigningKey(ca, so, iss, kid) ==
    IF ca[iss] # NoKey THEN [key |-> ca[iss], err |-> "", cache |-> ca]
    ELSE IF so[iss] = Unavailable
    THEN [key |-> NoKey, err |-> "KeyFetchError", cache |-> ca]
    ELSE [key |-> so[iss], err |-> "", cache |-> [ca EXCEPT ![iss] = so[iss]]]

\* keyGetter.flushCachedSigningKeys(iss): drops what is cached for iss.
keyGetterFlush(ca, iss) == [ca EXCEPT ![iss] = NoKey]

\* providers(provs).validate(): the list is not empty and every provider has
\* an issuer and at least one client id.
providersValidate(ps) ==
    IF Len(ps) = 0 THEN "EmptyProviders"
    ELSE IF \E i \in 1..Len(ps) : ps[i].Issuer = "" THEN "EmptyProviderIssuer"
    ELSE IF \E i \in 1..Len(ps) : Len(ps[i].ClientIDs) = 0 THEN "EmptyProviderClientIDs"
    ELSE ""

\* The parser's own checks once the callback returned: a callback error makes
\* the token unverifiable; otherwise the time claims are validated and the
\* signature is checked against the key, and both failures are reported.
ParserErrors(t, cbErr, vkey) ==
    IF cbErr # "" THEN {"Unverifiable"}
    ELSE (IF t.timeOK THEN {} ELSE {"Expired"})
         \cup (IF t.signedBy = vkey THEN {} ELSE {"SignatureInvalid"})

\* jwtErrorToOpenIDError: an error of the callback comes back as it was
\* raised, the parser's own failures as an OpenID validation error.
jwtErrorToOpenIDError(errors, inner) ==
    IF inner # "" THEN inner
    ELSE IF "Malformed" \in errors THEN "JwtMalformed"
    ELSE IF "Expired" \in errors THEN "JwtExpired"
    ELSE "JwtSignatureInvalid"

(***************************************************************************)
(* State.                                                                  *)
(***************************************************************************)
Calls == {"c1", "c2"}

VARIABLES
    registry,   \* the provider list the provider source returns
    cache,      \* key resolver: issuer -> cached key material or NoKey
    source,     \* key resolver: issuer -> key material at the issuer
    health,     \* which collaborator calls return an error: per collaborator
                \* "up" (never), "down" (always) or "flaky" (either, per call)
    cache0,     \* the resolver's cache when the calls began
    pc,         \* per call: where validate stands
    tok,        \* per call: the token (t, as the parser exposes it)
    parses,     \* per call: number of jwtParser invocations
    provs,      \* per call: provs of getSigningKey
    p,          \* per call: the provider validateIssuer returned
    key,        \* per call: key bytes of the running callback
    vkey,       \* per call: the decoded key the callback returned
    cbErr,      \* per call: the error the running callback returned
    err,        \* per call: err of validate, [errors, inner]; errors = {} is nil
    result,     \* per call: what validate returned
    log,        \* per call: the collaborator calls and matcher runs so far
    parsed      \* per call: the Errors each jwtParser invocation returned

vars == <<registry, cache, source, health, cache0, pc, tok, parses, provs, p, key, vkey,
          cbErr, err, result, log, parsed>>

NoErr == [errors |-> {}, inner |-> ""]
NoResult == [status |-> "", err |-> "", token |-> FALSE]
Event(op, iss, kid, val, e) ==
    [op |-> op, iss |-> iss, kid |-> kid, val |-> val, err |-> e]


(***************************************************************************)
(* Inputs: tokens, provider lists and the state of the key resolver.       *)
(***************************************************************************)
SeqsUpTo(S, n) == UNION {[1..k -> S] : k \in 0..n}

IssuerStrings == {GoogleIssuer, HttpsGoogleIssuer, ExampleIssuer, BareExampleIssuer}
ClientIDStrings == {"client-1", "client-2"}
AudienceStrings == {"", "client-1", "client-2"}

Token(iss, aud, sub, kid, timeOK, signedBy) ==
    [malformed |-> FALSE,
     Claims |-> [iss |-> iss, aud |-> aud, sub |-> sub],
     Header |-> [kid |-> kid],
     timeOK |-> timeOK, signedBy |-> signedBy]

\* A token string the parser cannot split or decode: no claims are exposed.
MalformedToken ==
    [malformed |-> TRUE,
     Claims |-> [iss |-> Nil, aud |-> Nil, sub |-> Nil],
     Header |-> [kid |-> Nil],
     timeOK |-> TRUE, signedBy |-> "rsa-A"]

IssuerClaims == {Nil, Number, Str("")} \cup {Str(i) : i \in IssuerStrings}
SubjectClaims == {Nil, Number, Str(""), Str("user-42")}
AudienceEntries == {Number} \cup {Str(a) : a \in AudienceStrings}
AudienceClaims ==
    {Nil, Number} \cup {Str(a) : a \in AudienceStrings}
    \cup {List(l) : l \in SeqsUpTo(AudienceEntries, MaxAudiences)}

Provider(iss, cids) == [Issuer |-> iss, ClientIDs |-> cids]

FreshCache == [i \in IssuerStrings |-> NoKey]
SourceOf(k) == [i \in IssuerStrings |-> k]

\* Issuer matching: every issuer claim against every provider list.
IssuerInputs ==
    [tok : {Token(i, a, s, Nil, TRUE, "rsa-A") :
               i \in IssuerClaims, a \in {Nil, Str("client-1")},
               s \in {Str(""), Str("user-42")}},
     registry : SeqsUpTo({Provider(i, <<c>>) : i \in IssuerStrings \cup {""},
                                               c \in ClientIDStrings},
                         MaxProviders),
     cache : {FreshCache},
     source : {SourceOf("pem-A")}]

\* Audience and subject matching: every audience claim against every list of
\* client ids of the one provider.
AudienceInputs ==
    [tok : {Token(Str(ExampleIssuer), a, s, Nil, TRUE, "rsa-A") :
               a \in AudienceClaims, s \in SubjectClaims},
     registry : {<<Provider(ExampleIssuer, cids)>> :
                    cids \in SeqsUpTo(ClientIDStrings \cup {""}, MaxClientIDs)},
     cache : {FreshCache},
     source : {SourceOf("pem-A")}]

\* Key resolution: tokens with valid claims, every signature and time
\* validity, against every state of cache and key source of the two google
\* issuer strings.
GoogleProviders ==
    {<<Provider(HttpsGoogleIssuer, <<"client-1">>)>>,
     <<Provider(GoogleIssuer, <<"client-1">>)>>,
     <<Provider(GoogleIssuer, <<"client-1">>),
       Provider(HttpsGoogleIssuer, <<"client-1">>)>>}

KeyInputs ==
    [tok : {Token(Str(i), Str("client-1"), Str("user-42"), k, t, sg) :
               i \in {GoogleIssuer, HttpsGoogleIssuer},
               k \in {Nil, Str("kid-1")}, t \in BOOLEAN, sg \in RsaKeys}
           \cup {MalformedToken},
     registry : GoogleProviders,
     cache : {[FreshCache EXCEPT ![GoogleIssuer] = g, ![HttpsGoogleIssuer] = h] :
                 g \in {NoKey, "pem-A", "pem-B"}, h \in {NoKey, "pem-A", "pem-B"}},
     source : {[SourceOf(Unavailable) EXCEPT ![GoogleIssuer] = g,
                                             ![HttpsGoogleIssuer] = h] :
                 g \in KeyBytes \cup {Unavailable},
                 h \in KeyBytes \cup {Unavailable}}]

Inputs == IssuerInputs \cup AudienceInputs \cup KeyInputs

(***************************************************************************)
(* One validate call, c1, on the inputs; c2 does not run.                  *)
(***************************************************************************)
Flaky == [provGetter |-> "flaky", flush |-> "flaky"]

\* The errors a collaborator of health h may return on one call.
Fails(h) == CASE h = "up" -> {FALSE} [] h = "down" -> {TRUE} [] OTHER -> BOOLEAN

\* The validator on the inputs in, its collaborators of health hl: c1 is at
\* the entry of validate with the token of in, c2 has token t2 and is at pc2.
Start(in, hl, t2, pc2) ==
    /\ registry = in.registry
    /\ cache = in.cache
    /\ source = in.source
    /\ health = hl
    /\ cache0 = in.cache
    /\ tok = [c \in Calls |-> IF c = "c1" THEN in.tok ELSE t2]
    /\ pc = [c \in Calls |-> IF c = "c1" THEN "validate" ELSE pc2]
    /\ parses = [c \in Calls |-> 0]
    /\ provs = [c \in Calls |-> <<>>]
    /\ p = [c \in Calls |-> NoProvider]
    /\ key = [c \in Calls |-> NoKey]
    /\ vkey = [c \in Calls |-> NoRsaKey]
    /\ cbErr = [c \in Calls |-> ""]
    /\ err = [c \in Calls |-> NoErr]
    /\ result = [c \in Calls |-> NoResult]
    /\ log = [c \in Calls |-> <<>>]
    /\ parsed = [c \in Calls |-> <<>>]

Init == \E in \in Inputs : Start(in, Flaky, MalformedToken, "idle")

(***************************************************************************)
(* validate, step by step.                                                 *)
(***************************************************************************)
Logged(c, e) == [log EXCEPT ![c] = Append(@, e)]

\* jwtParser(t, callback) begins: a malformed token fails before the callback
\* is invoked (next is "checkErr" or "return"), otherwise the callback runs
\* from cb.
ParserBegins(c, cb, failed) ==
    /\ parses' = [parses EXCEPT ![c] = @ + 1]
    /\ log' = Logged(c, Event("jwtParser", "", "", "", ""))
    /\ key' = [key EXCEPT ![c] = NoKey]
    /\ vkey' = [vkey EXCEPT ![c] = NoRsaKey]
    /\ cbErr' = [cbErr EXCEPT ![c] = ""]
    /\ IF tok[c].malformed
       THEN /\ err' = [err EXCEPT ![c] = [errors |-> {"Malformed"}, inner |-> ""]]
            /\ parsed' = [parsed EXCEPT ![c] = Append(@, {"Malformed"})]
            /\ pc' = [pc EXCEPT ![c] = failed]
       ELSE /\ err' = err
            /\ parsed' = parsed
            /\ pc' = [pc EXCEPT ![c] = cb]

\* Variant: the key is resolved before the subject is validated.
CallbackOrderKeyBeforeSubject ==
    <<"provGetter", "validateIssuer", "validateAudiences", "getSigningKey",
      "validateSubject">>

\* The steps of getSigningKey (lines 78-104) in the order of the code, and
\* the step that follows a step that did not fail.
CallbackOrder ==
    <<"provGetter", "validateIssuer", "validateAudiences", "validateSubject",
      "getSigningKey">>

StepAfter(step) ==
    LET i == CHOOSE k \in 1..Len(CallbackOrder) : CallbackOrder[k] = step
    IN  CallbackOrder[i + 1]

\* The callback returns (nil, e).
CallbackFails(c, e) ==
    /\ cbErr' = [cbErr EXCEPT ![c] = e]
    /\ pc' = [pc EXCEPT ![c] = "parserVerify"]

\* validate, line 35: the first parse, with getSigningKey as the callback.
Validate(c) ==
    /\ pc[c] = "validate"
    /\ ParserBegins(c, CallbackOrder[1], "checkErr")
    /\ UNCHANGED <<health, cache0, registry, cache, source, tok, provs, p, result>>

\* getSigningKey, lines 78-85: the provider list and its validation.
GetProviders(c) ==
    /\ pc[c] = "provGetter"
    /\ \E fails \in Fails(health.provGetter) :
        LET e == IF fails THEN "ProviderSourceError" ELSE providersValidate(registry)
        IN  /\ provs' = [provs EXCEPT ![c] = IF fails THEN <<>> ELSE registry]
            /\ log' = Logged(c, Event("provGetter", "", "", "", e))
            /\ IF e # "" THEN CallbackFails(c, e)
               ELSE /\ pc' = [pc EXCEPT ![c] = StepAfter("provGetter")]
                    /\ cbErr' = cbErr
    /\ UNCHANGED <<health, cache0, registry, cache, source, tok, parses, p, key, vkey, err, result, parsed>>

\* getSigningKey, lines 87-90.
ValidateIssuer(c) ==
    /\ pc[c] = "validateIssuer"
    /\ LET r == validateIssuer(tok[c], provs[c])
       IN  /\ p' = [p EXCEPT ![c] = r.p]
           /\ log' = Logged(c, Event("validateIssuer", "", "", r.p.Issuer, r.err))
           /\ IF r.err # "" THEN CallbackFails(c, r.err)
              ELSE /\ pc' = [pc EXCEPT ![c] = StepAfter("validateIssuer")]
                   /\ cbErr' = cbErr
    /\ UNCHANGED <<health, cache0, registry, cache, source, tok, parses, provs, key, vkey, err, result, parsed>>

\* getSigningKey, lines 92-95.
ValidateAudiences(c) ==
    /\ pc[c] = "validateAudiences"
    /\ LET r == validateAudiences(tok[c], p[c])
       IN  /\ log' = Logged(c, Event("validateAudiences", "", "", r.val, r.err))
           /\ IF r.err # "" THEN CallbackFails(c, r.err)
              ELSE /\ pc' = [pc EXCEPT ![c] = StepAfter("validateAudiences")]
                   /\ cbErr' = cbErr
    /\ UNCHANGED <<health, cache0, registry, cache, source, tok, parses, provs, p, key, vkey, err, result, parsed>>

\* getSigningKey, lines 96-99.
ValidateSubject(c) ==
    /\ pc[c] = "validateSubject"
    /\ LET r == validateSubject(tok[c])
       IN  /\ log' = Logged(c, Event("validateSubject", "", "", r.val, r.err))
           /\ IF r.err # "" THEN CallbackFails(c, r.err)
              ELSE /\ pc' = [pc EXCEPT ![c] = StepAfter("validateSubject")]
                   /\ cbErr' = cbErr
    /\ UNCHANGED <<health, cache0, registry, cache, source, tok, parses, provs, p, key, vkey, err, result, parsed>>

\* tv.keyGetter.getSigningKey(r, iss, kid) and what the callback does with
\* its result (lines 104-108 and 70-74).
KeyGetterCall(c, iss, kid) ==
    LET r == keyGetterGetSigningKey(cache, source, iss, kid)
    IN  /\ cache' = r.cache
        /\ log' = Logged(c, Event("getSigningKey", iss, kid, r.key, r.err))
        /\ IF r.err = ""
           THEN /\ key' = [key EXCEPT ![c] = r.key]
                /\ pc' = [pc EXCEPT ![c] = "rsaParser"]
                /\ cbErr' = cbErr
           ELSE /\ key' = key
                /\ CallbackFails(c, r.err)

\* getSigningKey, lines 101-104: the key of the matched provider's issuer.
GetSigningKey(c) ==
    /\ pc[c] = "getSigningKey"
    /\ KeyGetterCall(c, p[c].Issuer, getTokenKid(tok[c]))
    /\ UNCHANGED <<health, cache0, registry, source, tok, parses, provs, p, vkey, err, result, parsed>>

\* lines 105 and 71: return tv.rsaParser(key).
RsaParser(c) ==
    /\ pc[c] = "rsaParser"
    /\ LET d == rsaParser(key[c])
       IN  /\ log' = Logged(c, Event("rsaParser", "", "", d.key, d.err))
           /\ vkey' = [vkey EXCEPT ![c] = d.key]
           /\ cbErr' = [cbErr EXCEPT ![c] = d.err]
    /\ pc' = [pc EXCEPT ![c] = "parserVerify"]
    /\ UNCHANGED <<health, cache0, registry, cache, source, tok, parses, provs, p, key, err, result, parsed>>

\* Variant: the error of every parse is examined for a retry.
ParseAlwaysChecked(n) == "checkErr"

\* Variant: the error of the second parse is examined for a retry as well.
ParseCheckedTwice(n) == IF n <= 2 THEN "checkErr" ELSE "return"

\* Where validate goes on when its n-th jwtParser call returned: line 38
\* after the first (line 35), line 51 after the second (line 44).
ParseReturnsTo(n) == IF n = 1 THEN "checkErr" ELSE "return"

\* The parser finishes the parse with what the callback returned; its error
\* is err of line 35 after the first parse and of line 44 after the second.
ParserVerify(c) ==
    /\ pc[c] = "parserVerify"
    /\ LET errors == ParserErrors(tok[c], cbErr[c], vkey[c])
       IN  /\ err' = [err EXCEPT ![c] = [errors |-> errors, inner |-> cbErr[c]]]
           /\ parsed' = [parsed EXCEPT ![c] = Append(@, errors)]
    /\ pc' = [pc EXCEPT ![c] = ParseReturnsTo(parses[c])]
    /\ UNCHANGED <<health, cache0, registry, cache, source, tok, parses, provs, p, key, vkey,
                   cbErr, result, log>>

\* Variant: every parse error triggers the renewal.
AnyParseError(e) == e.errors # {}

\* Variant: no parse error leads to a retry.
NoRetry(e) == FALSE

\* validate, lines 38-43: err is a *jwt.ValidationError whose Errors have the
\* ValidationErrorSignatureInvalid bit.
SignatureInvalid(e) == e.errors # {} /\ "SignatureInvalid" \in e.errors

\* Variant: the second parse is given getSigningKey as its callback again.
RenewCallbackEntry_getSigningKey == CallbackOrder[1]

\* validate, line 45: the callback of the second parse is
\* renewAndGetSigningKey, whose first step (lines 60-62) is the flush.
RenewCallbackEntry == "flush"

\* validate, lines 38-49: the second parse, with renewAndGetSigningKey as the
\* callback, when the first failed on the signature.
CheckErr(c) ==
    /\ pc[c] = "checkErr"
    /\ IF SignatureInvalid(err[c])
       THEN ParserBegins(c, RenewCallbackEntry, "return")
       ELSE /\ pc' = [pc EXCEPT ![c] = "return"]
            /\ UNCHANGED <<parses, log, key, vkey, cbErr, err, parsed>>
    /\ UNCHANGED <<health, cache0, registry, cache, source, tok, provs, p, result>>

\* renewAndGetSigningKey, line 60: the token's own issuer claim.
RenewIssuer(jt) == jt.Claims[issuerClaimName]

\* Variant: the error of the flush is not looked at.
AfterFlushIgnoringError(failed) == "renewGet"

\* Variant: after a flush the callback returns without fetching the key again.
AfterFlushNoRefetch(failed) == "parserVerify"

\* renewAndGetSigningKey, lines 62-67: the callback returns (nil, err) when
\* the flush failed and goes on to fetch the key when it did not.
AfterFlush(failed) == IF failed THEN "parserVerify" ELSE "renewGet"

\* renewAndGetSigningKey, lines 60-65.  The type assertion of line 60 panics
\* on a claim that is no string.
Flush(c) ==
    /\ pc[c] = "flush"
    /\ LET iss == RenewIssuer(tok[c])
       IN  IF iss.kind # "string"
           THEN /\ pc' = [pc EXCEPT ![c] = "panic"]
                /\ UNCHANGED <<cache, cbErr, log>>
           ELSE \E fails \in Fails(health.flush) :
                /\ log' = Logged(c, Event("flushCachedSigningKeys", iss.s, "", "",
                                          IF fails THEN "FlushError" ELSE ""))
                /\ cache' = IF fails THEN cache ELSE keyGetterFlush(cache, iss.s)
                /\ cbErr' = [cbErr EXCEPT ![c] = IF fails THEN "FlushError" ELSE @]
                /\ pc' = [pc EXCEPT ![c] = AfterFlush(fails)]
    /\ UNCHANGED <<health, cache0, registry, source, tok, parses, provs, p, key, vkey, err, result, parsed>>

\* renewAndGetSigningKey, lines 67-70: the key of the token's issuer claim.
RenewGet(c) ==
    /\ pc[c] = "renewGet"
    /\ KeyGetterCall(c, RenewIssuer(tok[c]).s, getTokenKid(tok[c]))
    /\ UNCHANGED <<health, cache0, registry, source, tok, parses, provs, p, vkey, err, result, parsed>>

\* validate, lines 51-55.
Return(c) ==
    /\ pc[c] = "return"
    /\ result' = [result EXCEPT ![c] =
          IF err[c].errors # {}
          THEN [status |-> "Rejected",
                err |-> jwtErrorToOpenIDError(err[c].errors, err[c].inner),
                token |-> FALSE]
          ELSE [status |-> "Accepted", err |-> "", token |-> TRUE]]
    /\ pc' = [pc EXCEPT ![c] = "done"]
    /\ UNCHANGED <<health, cache0, registry, cache, source, tok, parses, provs, p, key, vkey,
                   cbErr, err, log, parsed>>

Next ==
    \E c \in Calls :
        \/ Validate(c)
        \/ GetProviders(c)
        \/ ValidateIssuer(c)
        \/ ValidateAudiences(c)
        \/ ValidateSubject(c)
        \/ GetSigningKey(c)
        \/ RsaParser(c)
        \/ ParserVerify(c)
        \/ CheckErr(c)
        \/ Flush(c)
        \/ RenewGet(c)
        \/ Return(c)

Spec == Init /\ [][Next]_vars

(***************************************************************************)
(* One validate call while the provider source changes its list.           *)
(***************************************************************************)
ProviderLists == GoogleProviders \cup {<<>>}

\* The provider source comes to return another list.
ChangeProviders ==
    /\ \E ps \in ProviderLists \ {registry} : registry' = ps
    /\ UNCHANGED <<health, cache0, cache, source, pc, tok, parses, provs, p, key,
                   vkey, cbErr, err, result, log, parsed>>

InitProviders == \E in \in KeyInputs : Start(in, Flaky, MalformedToken, "idle")
NextProviders == Next \/ ChangeProviders
SpecProviders == InitProviders /\ [][NextProviders]_vars

(***************************************************************************)
(* Two validate calls in sequence on the same token: c2 begins when c1 has *)
(* returned.  The collaborators are steady: each either works or fails on  *)
(* every call.                                                             *)
(***************************************************************************)
Steady == [provGetter : {"up", "down"}, flush : {"up", "down"}]

Repeat ==
    /\ pc["c1"] = "done"
    /\ pc["c2"] = "waiting"
    /\ pc' = [pc EXCEPT !["c2"] = "validate"]
    /\ UNCHANGED <<health, cache0, registry, cache, source, tok, parses, provs, p,
                   key, vkey, cbErr, err, result, log, parsed>>

InitRepeat ==
    \E in \in KeyInputs, hl \in Steady : Start(in, hl, in.tok, "waiting")
NextRepeat == Next \/ Repeat
SpecRepeat == InitRepeat /\ [][NextRepeat]_vars

(***************************************************************************)
(* Two validate calls, interleaved step by step, on one resolver: every    *)
(* step is one collaborator call, which is atomic.  The provider list and  *)
(* the key source do not change; the flush works or fails on every call.   *)
(***************************************************************************)
ConcurrentInputs ==
    {in \in KeyInputs :
        /\ ~in.tok.malformed /\ in.tok.timeOK /\ in.tok.Header.kid = Nil
        /\ \A i \in DOMAIN in.source : in.source[i] # "not-pem"}

InitConcurrent ==
    \E in \in ConcurrentInputs, t2 \in {other.tok : other \in ConcurrentInputs},
       hl \in {h \in Steady : h.provGetter = "up"} :
        Start(in, hl, t2, "validate")
SpecConcurrent == InitConcurrent /\ [][Next]_vars

\* validate is straight-line code on one goroutine and every collaborator
\* call returns: a call that can take a step takes it.
SpecFair == Spec /\ WF_vars(Next)


(***************************************************************************)
(* Properties.                                                             *)
(***************************************************************************)
Ops(c, op) == {i \in 1..Len(log[c]) : log[c][i].op = op}
Count(c, op) == Cardinality(Ops(c, op))
Ran(c, op) == Ops(c, op) # {}
Min(S) == CHOOSE m \in S : \A k \in S : m <= k
Max(S) == CHOOSE m \in S : \A k \in S : m >= k
FirstEvent(c, op) == log[c][Min(Ops(c, op))]
LastEvent(c, op) == log[c][Max(Ops(c, op))]
Done(c) == pc[c] = "done"
Accepted(c) == Done(c) /\ result[c].status = "Accepted"
Rejected(c) == Done(c) /\ result[c].status = "Rejected"
FirstParseFailedOnSignature(c) ==
    Len(parsed[c]) >= 1 /\ "SignatureInvalid" \in parsed[c][1]
FlushSucceeded(c) ==
    \E i \in Ops(c, "flushCachedSigningKeys") : log[c][i].err = ""

\* C1 as stated: after a first parse that failed on the signature, a call
\* that has returned made exactly one flush, exactly two getSigningKey calls
\* and exactly two parses, and a second signature mismatch ends it Rejected.
C1_ExactlyOneRefetch ==
    \A c \in Calls :
        (Done(c) /\ FirstParseFailedOnSignature(c)) =>
            /\ Count(c, "flushCachedSigningKeys") = 1
            /\ Count(c, "getSigningKey") = 2
            /\ parses[c] = 2
            /\ ("SignatureInvalid" \in parsed[c][2] => Rejected(c))

\* C1 amended: a call never parses more than twice, flushes more than once or
\* fetches more than twice; after a first parse that failed on the signature
\* a call that has returned made exactly one flush and exactly one more
\* parse, and exactly one further getSigningKey call when the flush succeeded
\* and none when the flush returned an error; a second signature mismatch
\* ends it Rejected.
C1_ExactlyOneRetry ==
    \A c \in Calls :
        /\ parses[c] <= 2
        /\ Count(c, "jwtParser") = parses[c]
        /\ Count(c, "flushCachedSigningKeys") <= 1
        /\ Count(c, "getSigningKey") <= 2
        /\ (Done(c) /\ FirstParseFailedOnSignature(c)) =>
            /\ Count(c, "flushCachedSigningKeys") = 1
            /\ Count(c, "getSigningKey") = (IF FlushSucceeded(c) THEN 2 ELSE 1)
            /\ parses[c] = 2
            /\ Len(parsed[c]) = 2
            /\ ("SignatureInvalid" \in parsed[c][2] => Rejected(c))

C1_Witness ==
    \E c \in Calls :
        /\ Rejected(c)
        /\ parsed[c] = <<{"SignatureInvalid"}, {"SignatureInvalid"}>>
        /\ Count(c, "flushCachedSigningKeys") = 1
        /\ Count(c, "getSigningKey") = 2

\* The claims of the token are valid for the provider list: the list is well
\* formed, the issuer matches a provider, the audience one of its client ids,
\* and the subject is a non-empty string.
ClaimsValid(t, ps) ==
    /\ providersValidate(ps) = ""
    /\ validateIssuer(t, ps).err = ""
    /\ validateAudiences(t, validateIssuer(t, ps).p).err = ""
    /\ validateSubject(t).err = ""

\* C2: a call on a well-formed, time-valid token with valid claims, whose
\* first parse failed on the signature alone, whose flush succeeded and whose
\* provider's issuer has, at the key source, a key that verifies the token,
\* ends Accepted with exactly one flush.
C2_RecoveryFromRotation ==
    \A c \in Calls :
        ( /\ Done(c)
          /\ ~tok[c].malformed /\ tok[c].timeOK
          /\ ClaimsValid(tok[c], registry)
          /\ parsed[c][1] = {"SignatureInvalid"}
          /\ FlushSucceeded(c)
          /\ LET iss == validateIssuer(tok[c], registry).p.Issuer
             IN  /\ source[iss] \in KeyBytes
                 /\ rsaParser(source[iss]).key = tok[c].signedBy )
        => (Accepted(c) /\ Count(c, "flushCachedSigningKeys") = 1)

\* C3: when the first parse fails without a signature mismatch, the call
\* never flushes, never parses again and ends Rejected.
C3_OnlySignatureMismatchRetries ==
    \A c \in Calls :
        (Len(parsed[c]) >= 1 /\ parsed[c][1] # {}
            /\ "SignatureInvalid" \notin parsed[c][1]) =>
            /\ Count(c, "flushCachedSigningKeys") = 0
            /\ parses[c] = 1
            /\ Len(parsed[c]) = 1
            /\ pc[c] \in {"checkErr", "return", "done"}
            /\ (Done(c) => Rejected(c))

C3_Witness ==
    \E c \in Calls :
        /\ Rejected(c)
        /\ parsed[c] = <<{"Expired"}>>
        /\ Count(c, "getSigningKey") = 1

IssuerMatches(claim, issuer) ==
    \/ issuer = claim
    \/ claim = "accounts.google.com" /\ issuer = "https://accounts.google.com"

AudienceHas(aud, cid) ==
    \/ aud.kind = "string" /\ aud.s = cid
    \/ aud.kind = "list" /\ \E j \in 1..Len(aud.l) :
                                aud.l[j].kind = "string" /\ aud.l[j].s = cid

\* C4: a call ends Accepted, with the token and no error, only if the issuer
\* claim matched a provider of the registry, the audience claim holds one of
\* that provider's client ids, the subject is a non-empty string and the last
\* key the resolver returned in the call verifies the signature; otherwise it
\* ends Rejected with an error and no token.
C4_AcceptanceSoundness ==
    \A c \in Calls :
        Done(c) =>
            /\ result[c].status \in {"Accepted", "Rejected"}
            /\ Rejected(c) => (result[c].err # "" /\ ~result[c].token)
            /\ Accepted(c) =>
                /\ result[c].token /\ result[c].err = ""
                /\ tok[c].Claims.iss.kind = "string"
                /\ tok[c].Claims.iss.s # ""
                /\ \E i \in 1..Len(registry) :
                        /\ registry[i] = p[c]
                        /\ IssuerMatches(tok[c].Claims.iss.s, registry[i].Issuer)
                /\ \E i \in 1..Len(p[c].ClientIDs) :
                        /\ p[c].ClientIDs[i] # ""
                        /\ AudienceHas(tok[c].Claims.aud, p[c].ClientIDs[i])
                /\ tok[c].Claims.sub.kind = "string"
                /\ tok[c].Claims.sub.s # ""
                /\ tok[c].timeOK /\ ~tok[c].malformed
                /\ Ran(c, "getSigningKey")
                /\ LastEvent(c, "getSigningKey").err = ""
                /\ rsaParser(LastEvent(c, "getSigningKey").val).key = tok[c].signedBy

C4_Witness ==
    \E c \in Calls : Accepted(c) /\ parses[c] = 2

\* The events of the first parse: from the first jwtParser call up to the
\* second, or to the end of the log.
FirstPass(c) ==
    LET ps == Ops(c, "jwtParser")
        last == IF Cardinality(ps) >= 2 THEN Max(ps) - 1 ELSE Len(log[c])
    IN  SubSeq(log[c], 2, last)

\* C5: the first-pass callback runs provider retrieval, issuer, audience and
\* subject validation and key resolution in this order and stops at the first
\* failure; getSigningKey and flushCachedSigningKeys are called only after
\* issuer, audience and subject validation succeeded in the call; and a call
\* whose callback failed ends Rejected on the error of the step that failed,
\* an issuer error whenever the issuer claim matches no provider.
C5_ValidateBeforeTrust ==
    LET order == <<"provGetter", "validateIssuer", "validateAudiences",
                   "validateSubject", "getSigningKey", "rsaParser">>
    IN  \A c \in Calls :
            LET fp == FirstPass(c)
            IN  /\ Len(fp) <= Len(order)
                /\ \A k \in 1..Len(fp) :
                        /\ fp[k].op = order[k]
                        /\ k < Len(fp) => fp[k].err = ""
                /\ \A i \in Ops(c, "getSigningKey") \cup Ops(c, "flushCachedSigningKeys") :
                        \E j1, j2, j3 \in 1..Len(log[c]) :
                            /\ j1 < j2 /\ j2 < j3 /\ j3 < i
                            /\ log[c][j1] = Event("validateIssuer", "", "", p[c].Issuer, "")
                            /\ log[c][j2].op = "validateAudiences" /\ log[c][j2].err = ""
                            /\ log[c][j3].op = "validateSubject" /\ log[c][j3].err = ""
                /\ (Done(c) /\ Len(fp) >= 1 /\ fp[Len(fp)].err # "") =>
                        (Rejected(c) /\ err[c].inner = fp[Len(fp)].err)
                /\ (Done(c) /\ Len(fp) >= 1 /\ fp[1].err = ""
                        /\ ~(/\ tok[c].Claims.iss.kind = "string"
                             /\ \E i \in 1..Len(provs[c]) :
                                   IssuerMatches(tok[c].Claims.iss.s, provs[c][i].Issuer))) =>
                        err[c].inner \in {"InvalidIssuerType", "InvalidIssuer", "IssuerNotFound"}

C5_Witness ==
    \E c \in Calls :
        /\ Rejected(c)
        /\ Count(c, "getSigningKey") = 0
        /\ tok[c].Claims.iss.kind = "string"
        /\ tok[c].Claims.aud = Nil
        /\ tok[c].Claims.sub = Str("")
        /\ err[c].inner = "InvalidAudienceType"

Missing(v) == v.kind = "nil"
EmptyString(v) == v.kind = "string" /\ v.s = ""
EmptyList(v) == v.kind = "list" /\ Len(v.l) = 0

\* C6: a token whose issuer, subject or audience claim is missing or the
\* empty string, or whose audience claim is an empty list, never reaches the
\* key resolver and ends Rejected.
C6_EmptyClaimsRejected ==
    \A c \in Calls :
        LET cl == tok[c].Claims
        IN  ( \/ Missing(cl.iss) \/ EmptyString(cl.iss)
              \/ Missing(cl.sub) \/ EmptyString(cl.sub)
              \/ Missing(cl.aud) \/ EmptyString(cl.aud) \/ EmptyList(cl.aud) ) =>
                /\ Count(c, "getSigningKey") = 0
                /\ Count(c, "flushCachedSigningKeys") = 0
                /\ ~Accepted(c)
                /\ pc[c] # "panic"

C6_Witness ==
    \E c \in Calls :
        /\ Rejected(c)
        /\ ~tok[c].malformed
        /\ EmptyList(tok[c].Claims.aud)
        /\ tok[c].Claims.sub = Str("user-42")
        /\ err[c].inner = "AudienceNotFound"

IssuerClaimIsName(c) ==
    tok[c].Claims.iss.kind = "string" /\ tok[c].Claims.iss.s # ""
MatchingProviders(c) ==
    {i \in 1..Len(provs[c]) : IssuerMatches(tok[c].Claims.iss.s, provs[c][i].Issuer)}

\* C7: for a non-empty string issuer claim, issuer matching succeeds exactly
\* when some provider's Issuer equals the claim, or the claim is
\* accounts.google.com and some provider's Issuer is
\* https://accounts.google.com.
C7_IssuerMatching ==
    \A c \in Calls :
        (Ran(c, "validateIssuer") /\ IssuerClaimIsName(c)) =>
            (FirstEvent(c, "validateIssuer").err = "" <=> MatchingProviders(c) # {})

C7_Witness ==
    \E c \in Calls :
        /\ Ran(c, "validateIssuer")
        /\ tok[c].Claims.iss = Str("accounts.google.com")
        /\ \A i \in 1..Len(provs[c]) : provs[c][i].Issuer # "accounts.google.com"
        /\ FirstEvent(c, "validateIssuer").err = ""
        /\ p[c].Issuer = "https://accounts.google.com"

\* C8: when some provider matches the issuer claim, issuer matching returns
\* the first matching provider of the list; so a provider whose Issuer equals
\* the claim is returned wherever it sits, if no earlier provider matches.
C8_FirstMatchWins ==
    \A c \in Calls :
        (Ran(c, "validateIssuer") /\ IssuerClaimIsName(c)) =>
            /\ MatchingProviders(c) # {} =>
                /\ FirstEvent(c, "validateIssuer").err = ""
                /\ p[c] = provs[c][Min(MatchingProviders(c))]
            /\ \A i \in 1..Len(provs[c]) :
                (/\ provs[c][i].Issuer = tok[c].Claims.iss.s
                 /\ \A k \in 1..(i - 1) : k \notin MatchingProviders(c)) =>
                    p[c] = provs[c][i]

C8_Witness ==
    \E c \in Calls :
        /\ Ran(c, "validateIssuer")
        /\ MatchingProviders(c) = {1, 2}
        /\ provs[c][1] # provs[c][2]
        /\ p[c] = provs[c][1]

\* The audience claim as a list, and the strings among its entries.
Entries(aud) ==
    IF aud.kind = "string" THEN <<Str(aud.s)>>
    ELSE IF aud.kind = "list" THEN aud.l ELSE <<>>
StringEntries(aud) ==
    {Entries(aud)[j].s : j \in {k \in 1..Len(Entries(aud)) : Entries(aud)[k].kind = "string"}}
CommonClientIDs(c) ==
    {i \in 1..Len(p[c].ClientIDs) :
        /\ p[c].ClientIDs[i] # ""
        /\ p[c].ClientIDs[i] \in StringEntries(tok[c].Claims.aud)}
WellFormedAudiences(aud) ==
    \A j \in 1..Len(Entries(aud)) :
        Entries(aud)[j].kind = "string" /\ Entries(aud)[j].s # ""

\* C9 as stated: whenever client ids and audience entries have a value in
\* common, audience matching returns the first configured client id that is
\* an audience entry.
C9_FirstClientIDWins ==
    \A c \in Calls :
        (Ran(c, "validateAudiences") /\ CommonClientIDs(c) # {}) =>
            /\ FirstEvent(c, "validateAudiences").err = ""
            /\ FirstEvent(c, "validateAudiences").val
                  = p[c].ClientIDs[Min(CommonClientIDs(c))]

\* C9 amended: when every entry of the audience claim is a non-empty string
\* and client ids and audience entries have a value in common, audience
\* matching returns the first configured client id that is an audience
\* entry, whatever the order of the audience entries.
C9_FirstClientIDWinsWellFormed ==
    \A c \in Calls :
        (/\ Ran(c, "validateAudiences")
         /\ WellFormedAudiences(tok[c].Claims.aud)
         /\ CommonClientIDs(c) # {}) =>
            /\ FirstEvent(c, "validateAudiences").err = ""
            /\ FirstEvent(c, "validateAudiences").val
                  = p[c].ClientIDs[Min(CommonClientIDs(c))]

C9_Witness ==
    \E c \in Calls :
        /\ Ran(c, "validateAudiences")
        /\ p[c].ClientIDs = <<"client-1", "client-2">>
        /\ tok[c].Claims.aud = List(<<Str("client-2"), Str("client-1")>>)
        /\ FirstEvent(c, "validateAudiences").val = "client-1"

\* C10: audience validation fails with InvalidAudienceType on a claim that is
\* neither a string nor a list, fails (with InvalidAudienceType or
\* InvalidAudience) on every list that holds an entry that is no string or is
\* the empty string, wherever the entry sits, and fails with AudienceNotFound
\* when the entries are non-empty strings none of which is a client id.
C10_AudienceErrors ==
    \A c \in Calls :
        Ran(c, "validateAudiences") =>
            LET aud == tok[c].Claims.aud
                e == FirstEvent(c, "validateAudiences").err
            IN  /\ aud.kind \notin {"string", "list"} => e = "InvalidAudienceType"
                /\ (aud.kind \in {"string", "list"} /\ ~WellFormedAudiences(aud)) =>
                        e \in {"InvalidAudienceType", "InvalidAudience"}
                /\ (aud.kind \in {"string", "list"} /\ WellFormedAudiences(aud)
                        /\ CommonClientIDs(c) = {}) => e = "AudienceNotFound"

(***************************************************************************)
(* Issuer and subject validation: the error codes.                         *)
(***************************************************************************)
\* C11: issuer validation fails with InvalidIssuerType when the issuer claim
\* is present but no string, with InvalidIssuer when it is the empty string
\* or missing, and with IssuerNotFound when it is a non-empty string that
\* matches no provider.
C11_IssuerErrors ==
    \A c \in Calls :
        Ran(c, "validateIssuer") =>
            LET iss == tok[c].Claims.iss
                e == FirstEvent(c, "validateIssuer").err
            IN  /\ (~Missing(iss) /\ iss.kind # "string") => e = "InvalidIssuerType"
                /\ (Missing(iss) \/ EmptyString(iss)) => e = "InvalidIssuer"
                /\ (IssuerClaimIsName(c) /\ MatchingProviders(c) = {}) =>
                       e = "IssuerNotFound"

\* C12: subject validation fails with InvalidSubjectType when the subject
\* claim is present but no string and with InvalidSubject when it is the
\* empty string or missing; every non-empty string subject passes, whatever
\* it is.
C12_SubjectErrors ==
    \A c \in Calls :
        Ran(c, "validateSubject") =>
            LET sub == tok[c].Claims.sub
                e == FirstEvent(c, "validateSubject").err
            IN  /\ (~Missing(sub) /\ sub.kind # "string") => e = "InvalidSubjectType"
                /\ (Missing(sub) \/ EmptyString(sub)) => e = "InvalidSubject"
                /\ (sub.kind = "string" /\ sub.s # "") => e = ""

(***************************************************************************)
(* The retry path: what it is given and what it does.                      *)
(***************************************************************************)
\* C16: on the retry path the issuer passed to flushCachedSigningKeys, and
\* the issuer and kid passed to the second getSigningKey, are those passed to
\* the first-pass getSigningKey, also for a token with issuer
\* accounts.google.com matched to the provider https://accounts.google.com.
C16_SameKeyIdentity ==
    \A c \in Calls :
        Ran(c, "getSigningKey") =>
            LET first == FirstEvent(c, "getSigningKey")
            IN  /\ \A i \in Ops(c, "flushCachedSigningKeys") :
                       log[c][i].iss = first.iss
                /\ \A i \in Ops(c, "getSigningKey") :
                       log[c][i].iss = first.iss /\ log[c][i].kid = first.kid

\* The events of the renewal: the flush and what follows it.
Renewal(c) ==
    {i \in 1..Len(log[c]) :
        \E f \in Ops(c, "flushCachedSigningKeys") : i >= f}
RenewalFailures(c) == {i \in Renewal(c) : log[c][i].err # ""}

\* C17: a failure inside the renewal is terminal.  After a flush that
\* returned an error the resolver's getSigningKey is not called again; a
\* failed flush, second getSigningKey or key decoding is the last thing the
\* call does with its collaborators and the call ends Rejected; there is
\* never a second flush or a third parse.
C17_RenewalFailureIsTerminal ==
    \A c \in Calls :
        /\ Count(c, "flushCachedSigningKeys") <= 1
        /\ parses[c] <= 2
        /\ \A i \in RenewalFailures(c) :
              /\ i = Len(log[c])
              /\ ~Accepted(c)
              /\ pc[c] \in {"parserVerify", "return", "done"}
        /\ \A f \in Ops(c, "flushCachedSigningKeys") :
              log[c][f].err # "" =>
                  \A g \in Ops(c, "getSigningKey") : g < f

C17_Witness ==
    \E c \in Calls :
        /\ Rejected(c)
        /\ Count(c, "getSigningKey") = 1
        /\ Ran(c, "flushCachedSigningKeys")
        /\ LastEvent(c, "flushCachedSigningKeys").err = "FlushError"
        /\ parses[c] = 2

(***************************************************************************)
(* Audience matching: the value returned, and scalar audiences.            *)
(***************************************************************************)
\* C19: whenever audience matching succeeds, the value it returns is a
\* non-empty string that is an entry of the token's audience claim and one of
\* the matched provider's client ids; an empty client id never matches.
C19_MatchedAudience ==
    \A c \in Calls :
        (Ran(c, "validateAudiences") /\ FirstEvent(c, "validateAudiences").err = "") =>
            LET v == FirstEvent(c, "validateAudiences").val
            IN  /\ v # ""
                /\ v \in StringEntries(tok[c].Claims.aud)
                /\ \E i \in 1..Len(p[c].ClientIDs) : p[c].ClientIDs[i] = v

C19_Witness ==
    \E c \in Calls :
        /\ Ran(c, "validateAudiences")
        /\ FirstEvent(c, "validateAudiences").err = ""
        /\ FirstEvent(c, "validateAudiences").val = "client-1"
        /\ p[c].ClientIDs = <<"", "client-1">>
        /\ tok[c].Claims.aud = List(<<Str("client-2"), Str("client-1")>>)

\* The token with its audience claim replaced.
WithAudience(t, aud) == [t EXCEPT !.Claims.aud = aud]

\* C20: a scalar string audience s is treated as the one-element list [s]:
\* for the matched provider, audience validation of a token with aud = s
\* gives what it gives for the same token with aud = [s], the same value or
\* the same error code, and the other way round.
C20_ScalarAudienceAsList ==
    \A c \in Calls :
        Ran(c, "validateAudiences") =>
            LET aud == tok[c].Claims.aud
                e == FirstEvent(c, "validateAudiences")
                same(r) == e.err = r.err /\ e.val = r.val
            IN  /\ aud.kind = "string" =>
                       same(validateAudiences(
                               WithAudience(tok[c], List(<<Str(aud.s)>>)), p[c]))
                /\ (aud.kind = "list" /\ Len(aud.l) = 1 /\ aud.l[1].kind = "string") =>
                       same(validateAudiences(
                               WithAudience(tok[c], Str(aud.l[1].s)), p[c]))

C20_Witness ==
    \E c \in Calls :
        /\ Ran(c, "validateAudiences")
        /\ tok[c].Claims.aud = Str("client-2")
        /\ p[c].ClientIDs = <<"client-1", "client-2">>
        /\ FirstEvent(c, "validateAudiences").val = "client-2"

(***************************************************************************)
(* Termination and the resources of one call.                              *)
(***************************************************************************)
\* The events of the n-th parse attempt of call c, and its key fetches.
ParseAttempt(c, n) ==
    LET starts == Ops(c, "jwtParser")
        from == CHOOSE i \in starts : Cardinality({k \in starts : k <= i}) = n
    IN  {i \in 1..Len(log[c]) :
            i > from /\ \A k \in starts : k > from => i < k}
FetchesIn(c, n) ==
    Cardinality(ParseAttempt(c, n) \cap Ops(c, "getSigningKey"))
Resources(c) ==
    /\ parses[c] <= 2
    /\ Count(c, "jwtParser") = parses[c]
    /\ Count(c, "flushCachedSigningKeys") <= 1
    /\ Count(c, "getSigningKey") <= 2
    /\ pc[c] # "panic"
    /\ Done(c) => result[c].status \in {"Accepted", "Rejected"}

\* C15 as stated: a call makes at most two parser invocations and at most
\* one flush, and a call that has returned made exactly one key fetch in
\* each of its parse attempts.
C15_ExactlyOneFetchPerParse ==
    \A c \in Calls :
        /\ Resources(c)
        /\ Done(c) => \A n \in 1..parses[c] : FetchesIn(c, n) = 1

\* C15 amended: every validate call that has begun ends, Accepted or
\* Rejected, after at most two parser invocations, at most one flush and at
\* most one key fetch in each parse attempt, so at most two key fetches.
C15_TerminatesWithinResources ==
    /\ [](\A c \in Calls :
            /\ Resources(c)
            /\ \A n \in 1..parses[c] : FetchesIn(c, n) <= 1)
    /\ \A c \in Calls : (pc[c] # "idle") ~> Done(c)

C15_Witness ==
    \E c \in Calls :
        /\ Rejected(c)
        /\ parses[c] = 2
        /\ FetchesIn(c, 1) = 1
        /\ FetchesIn(c, 2) = 0
        /\ Count(c, "flushCachedSigningKeys") = 1

(***************************************************************************)
(* The retry repeats no claim validation.                                  *)
(***************************************************************************)
ClaimChecks == {"provGetter", "validateIssuer", "validateAudiences", "validateSubject"}
SecondParse(c) == Max(Ops(c, "jwtParser"))

\* The retry of a call that parsed twice got the key that verifies the token:
\* the flush succeeded, the fetch that followed returned a key, and the key
\* decodes to the key the token is signed with, on a time-valid token.
RetryVerifies(c) ==
    /\ tok[c].timeOK
    /\ FlushSucceeded(c)
    /\ \E g \in ParseAttempt(c, 2) \cap Ops(c, "getSigningKey") :
          /\ log[c][g].err = ""
          /\ rsaParser(log[c][g].val).err = ""
          /\ rsaParser(log[c][g].val).key = tok[c].signedBy

\* C18: a call reaches the retry only after its first-pass callback got the
\* provider list and validated issuer, audience and subject, and the retry
\* repeats none of it: the provider source is called and each matcher is run
\* at most once in a call, the second parse attempt consists of the flush,
\* the key fetch and the key decoding alone, and the call that retried ends
\* Accepted exactly when the retry got the verifying key, whatever the
\* provider list has become since the first pass.
C18_RetryRepeatsNoValidation ==
    \A c \in Calls :
        /\ \A op \in ClaimChecks : Count(c, op) <= 1
        /\ parses[c] = 2 =>
              /\ \A op \in ClaimChecks :
                    /\ Ran(c, op)
                    /\ FirstEvent(c, op).err = ""
                    /\ Min(Ops(c, op)) < SecondParse(c)
              /\ \A i \in ParseAttempt(c, 2) :
                    log[c][i].op \in {"flushCachedSigningKeys", "getSigningKey", "rsaParser"}
              /\ Done(c) => (Accepted(c) <=> RetryVerifies(c))

C18_Witness ==
    \E c \in Calls :
        /\ Accepted(c)
        /\ parses[c] = 2
        /\ provs[c] # <<>>
        /\ registry = <<>>

(***************************************************************************)
(* Repeated and concurrent calls.                                          *)
(***************************************************************************)
\* C13: two validate calls in sequence on the same token, with the same
\* provider list and the same keys at the key source, end with the same
\* outcome, also when the first call flushed and refilled the cache.
C13_Repeatable ==
    (Done("c1") /\ Done("c2")) =>
        /\ result["c1"].status = result["c2"].status
        /\ result["c1"].status \in {"Accepted", "Rejected"}

C13_Witness ==
    /\ Accepted("c1") /\ Accepted("c2")
    /\ FlushSucceeded("c1")
    /\ cache # cache0
    /\ parses["c1"] = 2
    /\ parses["c2"] = 1

\* The outcome of one validate call on token t run alone, from the resolver
\* cache ca, with provider list ps, key source so and collaborators of
\* steady health hl.
Verifies(t, k) ==
    rsaParser(k).err = "" /\ ParserErrors(t, "", rsaParser(k).key) = {}
AloneRetry(t, ca, so, hl) ==
    IF hl.flush = "down" THEN "Rejected"
    ELSE LET iss == RenewIssuer(t).s
             g == keyGetterGetSigningKey(keyGetterFlush(ca, iss), so, iss, getTokenKid(t))
         IN  IF g.err = "" /\ Verifies(t, g.key) THEN "Accepted" ELSE "Rejected"
Alone(t, ps, ca, so, hl) ==
    IF t.malformed \/ hl.provGetter = "down" \/ ~ClaimsValid(t, ps) THEN "Rejected"
    ELSE LET g == keyGetterGetSigningKey(ca, so, validateIssuer(t, ps).p.Issuer,
                                         getTokenKid(t))
         IN  IF g.err # "" \/ rsaParser(g.key).err # "" THEN "Rejected"
             ELSE IF Verifies(t, g.key) THEN "Accepted"
             ELSE IF "SignatureInvalid" \in ParserErrors(t, "", rsaParser(g.key).key)
             THEN AloneRetry(t, g.cache, so, hl)
             ELSE "Rejected"

\* No cached key differs from the key at the key source.
NoStaleKey(ca) == \A i \in DOMAIN ca : ca[i] \in {NoKey, source[i]}

\* C14 as stated: every one of the interleaved calls ends with the outcome
\* it would have had alone on the cache as it was when the calls began.
C14_SameAsAlone ==
    \A c \in Calls :
        Done(c) => result[c].status = Alone(tok[c], registry, cache0, source, health)

\* C14 amended: every one of the interleaved calls ends with an outcome it
\* would have had alone, on the cache as it was when the calls began or on
\* that cache emptied; the two are the same when no cached key differs from
\* the key at the key source.
C14_SameAsAloneOrAfterFlush ==
    \A c \in Calls :
        Done(c) =>
            /\ result[c].status \in
                  {Alone(tok[c], registry, cache0, source, health),
                   Alone(tok[c], registry, FreshCache, source, health)}
            /\ NoStaleKey(cache0) =>
                  result[c].status = Alone(tok[c], registry, cache0, source, health)

C14_Witness ==
    /\ Rejected("c1") /\ Accepted("c2")
    /\ FlushSucceeded("c2")
    /\ Alone(tok["c1"], registry, cache0, source, health) = "Accepted"
    /\ Alone(tok["c1"], registry, FreshCache, source, health) = "Rejected"

====
